---- MODULE Spec2Model ----
(***************************************************************************)
(* A model of the PagerDuty cache of osd-alert-analysis: the SQLAlchemy    *)
(* models of models.py (entity upsert, incident and alert construction,    *)
(* log reconciliation, the attribute listeners) and the cache updater of   *)
(* updater.py (incident sync, alert sync, the backfill loop).              *)
(*                                                                         *)
(* Python values are modelled as follows.                                  *)
(*   str        a sequence of one-character strings                        *)
(*   None       the empty set; a value that may be None is {} or {v}       *)
(*   dict       a record; a key that is absent is absent from its DOMAIN   *)
(*   datetime   an integer, the minutes since an epoch (UTC)               *)
(*   a row      a record; its surrogate id is its index in its table       *)
(* The session runs with autoflush (sessionmaker's default), so a query    *)
(* sees every object added to the session: the store below is the session  *)
(* and the rows it has flushed, together.                                  *)
(***************************************************************************)
EXTENDS Integers, Sequences, FiniteSets, TLC

VARIABLES
    store,      \* the session: tables pd_teams, pd_agents, incidents, alerts
    mode,       \* which entry point of the repository is being exercised
    call,       \* the last call made on the models: its input and its result
    pc,         \* updater.py __main__: the position of the run
    update_attempts_remaining,
    SINCE,
    UNTIL,
    args,       \* the parsed command line: limit and backfill
    icu,        \* IncidentCacheUpdater.update_incidents: its locals
    acu,        \* AlertCacheUpdater.update_alerts: its locals
    oldest_inc_ctime,
    hist        \* what the run has done so far (observations, never read by the code)

vars == <<store, mode, call, pc, update_attempts_remaining, SINCE, UNTIL, args,
          icu, acu, oldest_inc_ctime, hist>>

-----------------------------------------------------------------------------
(* Python values *)

None == {}

Some(v) == {v}

The(o) == CHOOSE v \in o : TRUE

HasKey(d, k) == k \in DOMAIN d

DelKey(d, k) == [x \in (DOMAIN d) \ {k} |-> d[x]]

Min(a, b) == IF a <= b THEN a ELSE b

\* s[:n]
Prefix(s, n) == SubSeq(s, 1, Min(Len(s), n))

\* lit in s
Contains(s, lit) ==
    \E i \in 1..(Len(s) - Len(lit) + 1) : SubSeq(s, i, i + Len(lit) - 1) = lit

UpperChars ==
    <<"A", "B", "C", "D", "E", "F", "G", "H", "I", "J", "K", "L", "M",
      "N", "O", "P", "Q", "R", "S", "T", "U", "V", "W", "X", "Y", "Z">>

LowerChars ==
    <<"a", "b", "c", "d", "e", "f", "g", "h", "i", "j", "k", "l", "m",
      "n", "o", "p", "q", "r", "s", "t", "u", "v", "w", "x", "y", "z">>

\* s.lower()
Lower(s) ==
    [i \in DOMAIN s |->
        IF \E k \in DOMAIN UpperChars : UpperChars[k] = s[i]
        THEN LowerChars[CHOOSE k \in DOMAIN UpperChars : UpperChars[k] = s[i]]
        ELSE s[i]]

\* str(v) of a value that is a str or None
PyStr(o) == IF o = None THEN <<"N", "o", "n", "e">> ELSE The(o)

\* a string of n characters
Filler(n) == [i \in 1..n |-> "x"]

-----------------------------------------------------------------------------
(* models.py: the columns *)

\* String(length=511) of name and html_url
NameLength == 511

\* String(length=255) of Incident.service
ServiceLength == 255

\* String(length=40) of Alert.cluster_id
ClusterIdLength == 40

EmptyStore == [pd_teams |-> <<>>, pd_agents |-> <<>>, incidents |-> <<>>, alerts |-> <<>>]

Kinds == {"pd_teams", "pd_agents", "incidents", "alerts"}

\* cls(pd_id=pd_id, html_url=html_url, name=name): every other column unset
\* (silenced and suppressed take their column default False)
NewRow(kind, pd_id, html_url, name) ==
    CASE kind = "incidents" ->
           [pd_id |-> pd_id, html_url |-> html_url, name |-> name,
            created_at |-> None, esc_policy |-> None, teams |-> <<>>,
            service |-> None, status |-> None, urgency |-> None,
            assigned_to |-> <<>>, acknowledged_by |-> <<>>,
            resolved_at |-> None, resolved_by |-> None, silenced |-> FALSE]
      [] kind = "alerts" ->
           [pd_id |-> pd_id, html_url |-> html_url, name |-> name,
            created_at |-> None, incident |-> None, status |-> None,
            severity |-> None, suppressed |-> Some(FALSE), cluster_id |-> None,
            shift |-> None, namespace |-> None, firing_details |-> None]
      [] OTHER ->
           [pd_id |-> pd_id, html_url |-> html_url, name |-> name]

\* session.query(cls).filter_by(pd_id=pd_id).first(): the row's id, 0 when none
QueryFirst(st, kind, pd_id) ==
    IF \E i \in DOMAIN st[kind] : st[kind][i].pd_id = pd_id
    THEN CHOOSE i \in DOMAIN st[kind] :
            /\ st[kind][i].pd_id = pd_id
            /\ \A j \in DOMAIN st[kind] : st[kind][j].pd_id = pd_id => i <= j
    ELSE 0

\* name[:511] if name else None
Truncated(o) ==
    IF o = None \/ The(o) = <<>> THEN None ELSE Some(Prefix(The(o), NameLength))

\* the mutant of GetOrCreate: the lookup is skipped and a row is always created
GetOrCreateAlwaysCreates(st, kind, pd_id, name, html_url) ==
    [st |-> [st EXCEPT ![kind] =
                Append(@, NewRow(kind, pd_id, Truncated(html_url), Truncated(name)))],
     id |-> Len(st[kind]) + 1]

\* PDEntityMixin.get_or_create: the store after the call and the id of the row
GetOrCreate(st, kind, pd_id, name, html_url) ==
    LET instance == QueryFirst(st, kind, pd_id)
    IN  IF instance # 0
        THEN [st |-> [st EXCEPT ![kind][instance].name = Truncated(name),
                                ![kind][instance].html_url = Truncated(html_url)],
              id |-> instance]
        ELSE [st |-> [st EXCEPT ![kind] =
                        Append(@, NewRow(kind, pd_id, Truncated(html_url), Truncated(name)))],
              id |-> Len(st[kind]) + 1]

\* A call's result: the store it leaves, whether it raised, and the row it returns
Returned(st, id) == [st |-> st, raised |-> FALSE, id |-> id]

Raised(st) == [st |-> st, raised |-> TRUE, id |-> 0]

\* PDEntityMixin.from_pd_api_response: a missing key raises KeyError before the call
EntityFromPd(st, kind, res_dict) ==
    IF ~(HasKey(res_dict, "id") /\ HasKey(res_dict, "summary") /\ HasKey(res_dict, "html_url"))
    THEN Raised(st)
    ELSE LET r == GetOrCreate(st, kind, res_dict.id, res_dict.summary, res_dict.html_url)
         IN  Returned(r.st, r.id)

-----------------------------------------------------------------------------
(* Timestamps of the PagerDuty API: ISO-8601 text, [t, suffix], t the instant *)

\* text.replace("Z", "+00:00")
ReplaceZ(text) ==
    IF text.suffix = <<"Z">>
    THEN [text EXCEPT !.suffix = <<"+", "0", "0", ":", "0", "0">>]
    ELSE text

\* datetime.datetime.fromisoformat accepts the text (python < 3.11 rejects a "Z")
IsoWellFormed(text) == text.suffix \in {<<>>, <<"+", "0", "0", ":", "0", "0">>}

\* datetime.datetime.fromisoformat(text)
FromIsoFormat(text) == text.t

\* res_dict[key].replace("Z", "+00:00") parses: the key is there, its value is text
\* (not None) and the text is a timestamp
HasTimestamp(d, key) ==
    /\ HasKey(d, key)
    /\ d[key] # None
    /\ IsoWellFormed(ReplaceZ(The(d[key])))

Timestamp(d, key) == FromIsoFormat(ReplaceZ(The(d[key])))

-----------------------------------------------------------------------------
(* models.py: Incident *)

SilentTest == <<"s", "i", "l", "e", "n", "t", " ", "t", "e", "s", "t">>

\* "silent test" in str(entity.name).lower()
IsSilentTest(agent) == Contains(Lower(PyStr(agent.name)), SilentTest)

\* the mutant of SetAssignedToListener: the scan stops at the last member only
SetAssignedToListenerLastOnly(st, inc, value) ==
    [st EXCEPT !.incidents[inc].silenced =
        value # <<>> /\ IsSilentTest(st.pd_agents[value[Len(value)]])]

\* _set_assigned_to: the "set" listener of Incident.assigned_to
SetAssignedToListener(st, inc, value) ==
    [st EXCEPT !.incidents[inc].silenced =
        \E i \in DOMAIN value : IsSilentTest(st.pd_agents[value[i]])]

\* _append_assigned_to: the "append" listener of Incident.assigned_to
AppendAssignedToListener(st, inc, child) ==
    IF IsSilentTest(st.pd_agents[child])
    THEN [st EXCEPT !.incidents[inc].silenced = TRUE]
    ELSE st

\* the mutant of RemoveAssignedToListener: the removal of any agent unsilences
RemoveAssignedToListenerAny(st, inc, child) ==
    [st EXCEPT !.incidents[inc].silenced = FALSE]

\* _remove_assigned_to: the "remove" listener of Incident.assigned_to
RemoveAssignedToListener(st, inc, child) ==
    IF IsSilentTest(st.pd_agents[child])
    THEN [st EXCEPT !.incidents[inc].silenced = FALSE]
    ELSE st

\* inc.assigned_to = value
SetAssignedTo(st, inc, value) ==
    [SetAssignedToListener(st, inc, value) EXCEPT !.incidents[inc].assigned_to = value]

\* the members of a list
Members(s) == {s[i] : i \in DOMAIN s}

\* the replacement of a collection as SQLAlchemy's collections.bulk_replace makes
\* it: the "append" listener runs for each incoming member that the old
\* collection did not hold ...
RECURSIVE BulkAppend(_, _, _, _)
BulkAppend(st, inc, old, values) ==
    IF values = <<>>
    THEN st
    ELSE BulkAppend(IF Head(values) \in Members(old)
                    THEN st
                    ELSE AppendAssignedToListener(st, inc, Head(values)),
                    inc, old, Tail(values))

\* ... and then the "remove" listener for each old member that is not incoming
BulkReplace(st, inc, value) ==
    LET old == st.incidents[inc].assigned_to
        st1 == BulkAppend(st, inc, old, value)
        st2 == IF \E r \in Members(old) \ Members(value) : IsSilentTest(st.pd_agents[r])
               THEN [st1 EXCEPT !.incidents[inc].silenced = FALSE]
               ELSE st1
    IN  [st2 EXCEPT !.incidents[inc].assigned_to = value]

\* inc.assigned_to.append(child)
AppendAssignedTo(st, inc, child) ==
    [AppendAssignedToListener(st, inc, child) EXCEPT
        !.incidents[inc].assigned_to = Append(@, child)]

\* list.remove(x): the list without the first occurrence of x
RemoveFirst(s, x) ==
    LET i == CHOOSE k \in DOMAIN s : s[k] = x /\ \A j \in 1..(k - 1) : s[j] # x
    IN  SubSeq(s, 1, i - 1) \o SubSeq(s, i + 1, Len(s))

\* inc.assigned_to.remove(child), child a member
RemoveAssignedTo(st, inc, child) ==
    [RemoveAssignedToListener(st, inc, child) EXCEPT
        !.incidents[inc].assigned_to = RemoveFirst(@, child)]

\* [PDTeam.from_pd_api_response(session, x) for x in res_dict["teams"]]: the
\* team after the first of teams ...
RECURSIVE TeamsFromPd(_, _, _), TeamsAfter(_, _, _)
TeamsAfter(r, teams, ids) ==
    IF r.raised
    THEN [st |-> r.st, raised |-> TRUE, ids |-> ids]
    ELSE TeamsFromPd(r.st, teams, Append(ids, r.id))

\* ... and the comprehension over teams
TeamsFromPd(st, teams, ids) ==
    IF teams = <<>>
    THEN [st |-> st, raised |-> FALSE, ids |-> ids]
    ELSE TeamsAfter(EntityFromPd(st, "pd_teams", Head(teams)), Tail(teams), ids)

\* the try block of Incident.from_pd_api_response: a KeyError leaves esc_policy as it was
WithEscPolicy(st, inc, res_dict) ==
    IF /\ HasKey(res_dict, "escalation_policy")
       /\ HasKey(res_dict.escalation_policy, "summary")
       /\ HasKey(res_dict.escalation_policy, "id")
    THEN [st EXCEPT !.incidents[inc].esc_policy =
            Some(res_dict.escalation_policy.summary \o <<" ", "(">>
                 \o res_dict.escalation_policy.id \o <<")">>)]
    ELSE st

\* The statements of Incident.from_pd_api_response, each applied to the outcome r
\* of the statements before it: a statement runs only if none before it raised.
\* inc.created_at = datetime.datetime.fromisoformat(...)
IncidentCreatedAt(r, res_dict) ==
    IF r.raised THEN r
    ELSE IF ~HasTimestamp(res_dict, "created_at") THEN Raised(r.st)
    ELSE Returned([r.st EXCEPT !.incidents[r.id].created_at =
                        Some(Timestamp(res_dict, "created_at"))], r.id)

\* try: inc.esc_policy = ... except KeyError
IncidentEscPolicy(r, res_dict) ==
    IF r.raised THEN r ELSE Returned(WithEscPolicy(r.st, r.id, res_dict), r.id)

\* inc.service = res_dict["service"]["summary"][:255]
IncidentService(r, res_dict) ==
    IF r.raised THEN r
    ELSE IF ~(HasKey(res_dict, "service") /\ HasKey(res_dict.service, "summary"))
    THEN Raised(r.st)
    ELSE Returned([r.st EXCEPT !.incidents[r.id].service =
                        Some(Prefix(res_dict.service.summary, ServiceLength))], r.id)

\* inc.status = res_dict["status"]
IncidentStatus(r, res_dict) ==
    IF r.raised THEN r
    ELSE IF ~HasKey(res_dict, "status") THEN Raised(r.st)
    ELSE Returned([r.st EXCEPT !.incidents[r.id].status = Some(res_dict.status)], r.id)

\* inc.urgency = res_dict["urgency"]
IncidentUrgency(r, res_dict) ==
    IF r.raised THEN r
    ELSE IF ~HasKey(res_dict, "urgency") THEN Raised(r.st)
    ELSE Returned([r.st EXCEPT !.incidents[r.id].urgency = Some(res_dict.urgency)], r.id)

\* inc.teams = [...], t the outcome of the comprehension
IncidentTeamsSet(t, inc) ==
    IF t.raised
    THEN Raised(t.st)
    ELSE Returned([t.st EXCEPT !.incidents[inc].teams = t.ids], inc)

IncidentTeams(r, res_dict) ==
    IF r.raised THEN r
    ELSE IF ~HasKey(res_dict, "teams") THEN Raised(r.st)
    ELSE IncidentTeamsSet(TeamsFromPd(r.st, res_dict.teams, <<>>), r.id)

\* Incident.from_pd_api_response: the statements in order, the first that raises ends it
IncidentFromPd(st, res_dict) ==
    IncidentTeams(
        IncidentUrgency(
            IncidentStatus(
                IncidentService(
                    IncidentEscPolicy(
                        IncidentCreatedAt(EntityFromPd(st, "incidents", res_dict), res_dict),
                        res_dict),
                    res_dict),
                res_dict),
            res_dict),
        res_dict)

\* populate_via_api_log, assign_log_entry: for assignee in entry["assignees"]
RECURSIVE AssignAll(_, _, _), AssignAfter(_, _, _)
AssignAfter(r, inc, assignees) ==
    IF r.raised
    THEN Raised(r.st)
    ELSE AssignAll(AppendAssignedTo(r.st, inc, r.id), inc, assignees)

AssignAll(st, inc, assignees) ==
    IF assignees = <<>>
    THEN Returned(st, inc)
    ELSE AssignAfter(EntityFromPd(st, "pd_agents", Head(assignees)), inc, Tail(assignees))

\* self.resolved_by = PDAgent.from_pd_api_response(session, entry["agent"])
ResolvedBy(st, inc, entry) ==
    IF ~HasKey(entry, "agent") THEN Raised(st)
    ELSE LET r == EntityFromPd(st, "pd_agents", entry.agent)
         IN  IF r.raised THEN Raised(r.st)
             ELSE Returned([r.st EXCEPT !.incidents[inc].resolved_by = Some(r.id)], inc)

\* the mutant of ResolveLogEntry: an incident that is resolved stays as it is
ResolveLogEntryFirstOnly(st, inc, entry) ==
    IF ~HasTimestamp(entry, "created_at") THEN Raised(st)
    ELSE IF st.incidents[inc].resolved_at # None THEN Returned(st, inc)
    ELSE ResolvedBy([st EXCEPT !.incidents[inc].resolved_at =
                        Some(Timestamp(entry, "created_at"))], inc, entry)

\* populate_via_api_log, resolve_log_entry: resolved_at is set before the agent
\* is looked at
ResolveLogEntry(st, inc, entry) ==
    IF ~HasTimestamp(entry, "created_at") THEN Raised(st)
    ELSE ResolvedBy([st EXCEPT !.incidents[inc].resolved_at =
                        Some(Timestamp(entry, "created_at"))], inc, entry)

\* populate_via_api_log, acknowledge_log_entry
AcknowledgeLogEntry(st, inc, entry) ==
    IF ~HasKey(entry, "agent") THEN Raised(st)
    ELSE LET r == EntityFromPd(st, "pd_agents", entry.agent)
         IN  IF r.raised THEN Raised(r.st)
             ELSE Returned([r.st EXCEPT !.incidents[inc].acknowledged_by =
                                Append(@, r.id)], inc)

\* populate_via_api_log: the body of the loop for one entry
PopulateEntry(st, inc, entry) ==
    IF ~HasKey(entry, "type") THEN Raised(st)
    ELSE IF entry.type = "resolve_log_entry" THEN ResolveLogEntry(st, inc, entry)
    ELSE IF entry.type = "acknowledge_log_entry" THEN AcknowledgeLogEntry(st, inc, entry)
    ELSE IF entry.type = "assign_log_entry" THEN
        IF ~HasKey(entry, "assignees") THEN Raised(st)
        ELSE AssignAll(st, inc, entry.assignees)
    ELSE Returned(st, inc)

\* Incident.populate_via_api_log: for entry in pd_log_entries
RECURSIVE PopulateViaApiLog(_, _, _), PopulateAfter(_, _, _)
PopulateAfter(r, inc, pd_log_entries) ==
    IF r.raised THEN r ELSE PopulateViaApiLog(r.st, inc, pd_log_entries)

PopulateViaApiLog(st, inc, pd_log_entries) ==
    IF pd_log_entries = <<>>
    THEN Returned(st, inc)
    ELSE PopulateAfter(PopulateEntry(st, inc, Head(pd_log_entries)), inc,
                       Tail(pd_log_entries))

-----------------------------------------------------------------------------
(* models.py: Alert *)

MinutesPerHour == 60

HoursPerDay == 24

MinutesPerDay == HoursPerDay * MinutesPerHour

\* date_time.hour, date_time.minute and date_time.date() of a datetime
HourOf(t) == (t % MinutesPerDay) \div MinutesPerHour

MinuteOf(t) == t % MinutesPerHour

DateOf(t) == t \div MinutesPerDay

\* the mutant of CalculateShift: the end of the UTC day is given the date of the
\* working day it belongs to, the next one
CalculateShiftNextDay(date_time) ==
    LET hour == HourOf(date_time)
        minute == MinuteOf(date_time)
    IN  IF hour < 3 \/ (hour = 3 /\ minute < 30)
        THEN [shift |-> "APAC 1", date |-> DateOf(date_time)]
        ELSE IF hour < 8 \/ (hour = 8 /\ minute < 30)
        THEN [shift |-> "APAC 2", date |-> DateOf(date_time)]
        ELSE IF hour < 13 \/ (hour = 13 /\ minute < 30)
        THEN [shift |-> "EMEA", date |-> DateOf(date_time)]
        ELSE IF hour < 18
        THEN [shift |-> "NASA 1", date |-> DateOf(date_time)]
        ELSE IF hour < 22 \/ (hour = 22 /\ minute < 30)
        THEN [shift |-> "NASA 2", date |-> DateOf(date_time)]
        ELSE [shift |-> "APAC 1", date |-> DateOf(date_time) + 1]

\* Alert.calculate_shift: f"{shift} ({date})" as the pair of its two parts
CalculateShift(date_time) ==
    LET hour == HourOf(date_time)
        minute == MinuteOf(date_time)
        shift ==
            IF hour < 3 \/ (hour = 3 /\ minute < 30) THEN "APAC 1"
            ELSE IF hour < 8 \/ (hour = 8 /\ minute < 30) THEN "APAC 2"
            ELSE IF hour < 13 \/ (hour = 13 /\ minute < 30) THEN "EMEA"
            ELSE IF hour < 18 THEN "NASA 1"
            ELSE IF hour < 22 \/ (hour = 22 /\ minute < 30) THEN "NASA 2"
            ELSE "APAC 1"
    IN  [shift |-> shift, date |-> DateOf(date_time)]

\* the mutant of SetCreatedAtListener: the shift is computed for a new alert only
SetCreatedAtListenerOnce(st, alert, value) ==
    IF st.alerts[alert].shift = None
    THEN [st EXCEPT !.alerts[alert].shift = Some(CalculateShift(value))]
    ELSE st

\* _set_created_at: the "set" listener of Alert.created_at
SetCreatedAtListener(st, alert, value) ==
    [st EXCEPT !.alerts[alert].shift = Some(CalculateShift(value))]

\* alert.created_at = value
SetCreatedAt(st, alert, value) ==
    [SetCreatedAtListener(st, alert, value) EXCEPT !.alerts[alert].created_at = Some(value)]

ClusterProvisioningDelay == <<"C", "l", "u", "s", "t", "e", "r", "P", "r", "o", "v", "i", "s", "i", "o", "n", "i", "n", "g", "D", "e", "l", "a", "y">>

HasGoneMissing == <<"h", "a", "s", " ", "g", "o", "n", "e", " ", "m", "i", "s", "s", "i", "n", "g">>

HeartbeatPingHasFailed == <<"H", "e", "a", "r", "t", "b", "e", "a", "t", ".", "p", "i", "n", "g", " ", "h", "a", "s", " ", "f", "a", "i", "l", "e", "d">>

CustEscalation == <<"C", "U", "S", "T", " ", "E", "S", "C", "A", "L", "A", "T", "I", "O", "N">>

ClusterHasGoneMissing == <<"C", "l", "u", "s", "t", "e", "r", "H", "a", "s", "G", "o", "n", "e", "M", "i", "s", "s", "i", "n", "g">>

HeartbeatPingFailed == <<"H", "e", "a", "r", "t", "b", "e", "a", "t", "P", "i", "n", "g", "F", "a", "i", "l", "e", "d">>

CustomerEscalation == <<"C", "u", "s", "t", "o", "m", "e", "r", "E", "s", "c", "a", "l", "a", "t", "i", "o", "n">>

\* the [:500] of standardize_name
StandardNameLength == 500

Whitespace == {" ", "\n", "\t"}

\* raw_name.split(): the whitespace-delimited words
RECURSIVE Split(_)
Split(s) ==
    IF s = <<>> THEN <<>>
    ELSE IF Head(s) \in Whitespace THEN Split(Tail(s))
    ELSE LET n == IF \E i \in DOMAIN s : s[i] \in Whitespace
                  THEN (CHOOSE i \in DOMAIN s :
                            s[i] \in Whitespace /\ \A j \in 1..(i - 1) : s[j] \notin Whitespace) - 1
                  ELSE Len(s)
         IN  <<SubSeq(s, 1, n)>> \o Split(SubSeq(s, n + 1, Len(s)))

\* Alert.standardize_name raises TypeError: raw_name is None (TypeError of "in")
\* or has no word (IndexError of split()[0])
StandardizeNameRaises(raw_name) == raw_name = None \/ Split(The(raw_name)) = <<>>

\* the mutant of StandardizeName: 'has gone missing' is looked for first
StandardizeNameMissingFirst(raw_name) ==
    LET text == The(raw_name)
    IN  IF Contains(text, HasGoneMissing) THEN ClusterHasGoneMissing
        ELSE IF Contains(text, ClusterProvisioningDelay) THEN ClusterProvisioningDelay
        ELSE IF Contains(text, HeartbeatPingHasFailed) THEN HeartbeatPingFailed
        ELSE IF Contains(text, CustEscalation) THEN CustomerEscalation
        ELSE Prefix(Split(text)[1], StandardNameLength)

\* Alert.standardize_name, when it returns
StandardizeName(raw_name) ==
    LET text == The(raw_name)
    IN  IF Contains(text, ClusterProvisioningDelay) THEN ClusterProvisioningDelay
        ELSE IF Contains(text, HasGoneMissing) THEN ClusterHasGoneMissing
        ELSE IF Contains(text, HeartbeatPingHasFailed) THEN HeartbeatPingFailed
        ELSE IF Contains(text, CustEscalation) THEN CustomerEscalation
        ELSE Prefix(Split(text)[1], StandardNameLength)

NamespaceEquals == <<"n", "a", "m", "e", "s", "p", "a", "c", "e", " ", "=", " ">>

\* the first index at which lit occurs in s, 0 when it does not
Find(s, lit) ==
    IF Contains(s, lit)
    THEN CHOOSE i \in 1..(Len(s) - Len(lit) + 1) :
            /\ SubSeq(s, i, i + Len(lit) - 1) = lit
            /\ \A j \in 1..(i - 1) : SubSeq(s, j, j + Len(lit) - 1) # lit
    ELSE 0

\* re.search(r"namespace = (.*)\n", value): group(1) in a set, {} when there is no
\* match. (.*) does not cross a newline, so the match starts at the first
\* "namespace = " that a newline follows and ends at the first newline after it.
SearchNamespace(value) ==
    LET at == Find(value, NamespaceEquals)
        from == at + Len(NamespaceEquals)
        rest == SubSeq(value, from, Len(value))
        nl == Find(rest, <<"\n">>)
    IN  IF at = 0 \/ nl = 0 THEN None ELSE Some(SubSeq(rest, 1, nl - 1))

\* _set_firing_details: the "set" listener of Alert.firing_details; no match is
\* the AttributeError it catches, and namespace stays as it was
SetFiringDetailsListener(st, alert, value) ==
    IF SearchNamespace(value) = None
    THEN st
    ELSE [st EXCEPT !.alerts[alert].namespace = SearchNamespace(value)]

\* alert.firing_details = value, value a str
SetFiringDetails(st, alert, value) ==
    [SetFiringDetailsListener(st, alert, value) EXCEPT
        !.alerts[alert].firing_details = Some(value)]

\* res_dict["body"]["details"][key] raises KeyError
NoDetail(res_dict, key) ==
    ~(/\ HasKey(res_dict, "body")
      /\ HasKey(res_dict.body, "details")
      /\ HasKey(res_dict.body.details, key))

\* Alert.from_pd_api_response, "Set name": a KeyError falls back to the summary, a
\* TypeError of either standardize_name leaves the name get_or_create has set
WithName(st, alert, res_dict) ==
    LET raw_name == IF NoDetail(res_dict, "alert_name")
                    THEN res_dict.summary
                    ELSE res_dict.body.details.alert_name
    IN  IF StandardizeNameRaises(raw_name)
        THEN st
        ELSE [st EXCEPT !.alerts[alert].name = Some(StandardizeName(raw_name))]

\* Alert.from_pd_api_response, "Set cluster ID"
WithClusterId(st, alert, res_dict) ==
    IF NoDetail(res_dict, "cluster_id")
    THEN st
    ELSE LET cluster_id == res_dict.body.details.cluster_id
         IN  [st EXCEPT !.alerts[alert].cluster_id =
                IF cluster_id = None \/ The(cluster_id) = <<>>
                THEN None
                ELSE Some(Prefix(The(cluster_id), ClusterIdLength))]

\* session.query(Incident).filter(Incident.pd_id == res_dict["incident"]["id"]).one()
\* raises: a KeyError of the lookup, or NoResultFound
NoIncident(st, res_dict) ==
    \/ ~HasKey(res_dict, "incident")
    \/ ~HasKey(res_dict.incident, "id")
    \/ QueryFirst(st, "incidents", res_dict.incident.id) = 0

\* The statements of Alert.from_pd_api_response, each applied to the outcome r of
\* the statements before it.
\* alert.status = res_dict["status"]
AlertStatus(r, res_dict) ==
    IF r.raised THEN r
    ELSE IF ~HasKey(res_dict, "status") THEN Raised(r.st)
    ELSE Returned([r.st EXCEPT !.alerts[r.id].status = Some(res_dict.status)], r.id)

\* alert.severity = res_dict["severity"]
AlertSeverity(r, res_dict) ==
    IF r.raised THEN r
    ELSE IF ~HasKey(res_dict, "severity") THEN Raised(r.st)
    ELSE Returned([r.st EXCEPT !.alerts[r.id].severity = Some(res_dict.severity)], r.id)

\* alert.suppressed = res_dict["suppressed"]
AlertSuppressed(r, res_dict) ==
    IF r.raised THEN r
    ELSE IF ~HasKey(res_dict, "suppressed") THEN Raised(r.st)
    ELSE Returned([r.st EXCEPT !.alerts[r.id].suppressed = Some(res_dict.suppressed)],
                  r.id)

\* alert.created_at = datetime.datetime.fromisoformat(...)
AlertCreatedAt(r, res_dict) ==
    IF r.raised THEN r
    ELSE IF ~HasTimestamp(res_dict, "created_at") THEN Raised(r.st)
    ELSE Returned(SetCreatedAt(r.st, r.id, Timestamp(res_dict, "created_at")), r.id)

\* alert.incident = session.query(Incident).filter(...).one()
AlertIncident(r, res_dict) ==
    IF r.raised THEN r
    ELSE IF NoIncident(r.st, res_dict) THEN Raised(r.st)
    ELSE Returned([r.st EXCEPT !.alerts[r.id].incident =
                        Some(QueryFirst(r.st, "incidents", res_dict.incident.id))], r.id)

\* "Set name" and "Set cluster ID": neither raises
AlertNameAndClusterId(r, res_dict) ==
    IF r.raised THEN r
    ELSE Returned(WithClusterId(WithName(r.st, r.id, res_dict), r.id, res_dict), r.id)

\* "Set firing details": a KeyError is caught; a firing that is None reaches the
\* listener, whose re.search raises TypeError
AlertFiringDetails(r, res_dict) ==
    IF r.raised THEN r
    ELSE IF NoDetail(res_dict, "firing") THEN r
    ELSE IF res_dict.body.details.firing = None THEN Raised(r.st)
    ELSE Returned(SetFiringDetails(r.st, r.id, The(res_dict.body.details.firing)), r.id)

\* Alert.from_pd_api_response: the statements in order, the first that raises ends it
AlertFromPd(st, res_dict) ==
    AlertFiringDetails(
        AlertNameAndClusterId(
            AlertIncident(
                AlertCreatedAt(
                    AlertSuppressed(
                        AlertSeverity(
                            AlertStatus(EntityFromPd(st, "alerts", res_dict), res_dict),
                            res_dict),
                        res_dict),
                    res_dict),
                res_dict),
            res_dict),
        res_dict)

-----------------------------------------------------------------------------
(* The instants of a run *)

\* datetime.now(timezone.utc): one instant stands for every reading of the clock
Now == 100 * MinutesPerDay

\* timedelta(days=n)
Days(n) == n * MinutesPerDay

\* datetime.max: an instant later than every other
DatetimeMax == Now + Days(1000 * 366)

\* timedelta(days=30): IncidentCacheUpdater's default window
DefaultWindowDays == 30

\* timedelta(days=1): the margin below BACKFILL_TARGET
ChatterDays == 1

MAX_UPDATE_ATTEMPTS == 30

-----------------------------------------------------------------------------
(* Bounds of the model *)

\* the largest attempts budget a run starts with
MaxBudget == 3

\* the age in days of the older upstream incident, and the largest --backfill
MaxAge == 2

\* the most records one upstream stream delivers (incidents; alerts of one
\* incident), and the largest --limit
MaxStream == 2

MaxAlerts == 1

-----------------------------------------------------------------------------
(* The upstream API: the records it can deliver *)

IncidentPdIds == {"I1", "I2"}

AlertPdIds == {"A1"}

\* an incident id that no incident record carries: never cached
UnknownIncident == "I9"

TeamDict == [id |-> "T1", summary |-> Some(<<"S", "R", "E">>), html_url |-> Some(<<"u", "r", "l">>)]

AgentDict(id, name) == [id |-> id, summary |-> Some(name), html_url |-> Some(<<"u", "r", "l">>)]

\* a record of /incidents with every key
IncidentDict(id, created_at, urgency) ==
    [id |-> id, summary |-> Some(<<"i", "n", "c">>), html_url |-> Some(<<"u", "r", "l">>),
     created_at |-> Some(created_at),
     escalation_policy |-> [summary |-> <<"e", "p">>, id |-> <<"P", "1">>],
     service |-> [summary |-> <<"s", "v", "c">>], status |-> "triggered", urgency |-> urgency,
     teams |-> <<TeamDict>>]

\* a record of /incidents/{id}/alerts with every key
AlertDict(id, created_at, incident_id) ==
    [id |-> id, summary |-> Some(<<"a", "l", "e", "r", "t", " ", "1">>),
     html_url |-> Some(<<"u", "r", "l">>), status |-> "triggered", severity |-> "critical",
     suppressed |-> FALSE, created_at |-> Some(created_at),
     incident |-> [id |-> incident_id],
     body |-> [details |-> [alert_name |-> Some(<<"D", "N", "S", " ", "x">>),
                            cluster_id |-> Some(<<"c", "1">>),
                            firing |-> Some(NamespaceEquals \o <<"n", "s", "\n">>)]]]

\* the values of --backfill: disabled, a target between the two incidents, and a
\* target at the older incident's creation
Backfills == {0, MaxAge - 1, MaxAge}

\* an upstream incident was created once and for all: the first of IncidentPdIds
\* now, the other MaxAge days ago
CreatedAt(pd_id) == IF pd_id = "I1" THEN Now ELSE Now - Days(MaxAge)

\* what iter_all("incidents") can deliver next: the well-formed records of the
\* incidents created inside the window, and records that lack "id" or "created_at"
UpstreamIncidents(since, until) ==
    LET good == {IncidentDict(id, [t |-> CreatedAt(id), suffix |-> <<"Z">>], "high") :
                    id \in {i \in IncidentPdIds :
                                since <= CreatedAt(i) /\ CreatedAt(i) <= until}}
    IN  good \cup {DelKey(d, "created_at") : d \in good}
             \cup {DelKey(IncidentDict("I1", [t |-> Now, suffix |-> <<"Z">>], "high"), "id")}

ResolveEntry ==
    [type |-> "resolve_log_entry", created_at |-> Some([t |-> Now, suffix |-> <<"Z">>]),
     agent |-> AgentDict("U1", <<"B", "o", "b">>)]

\* what rget("incidents/{id}/log_entries") can answer, when it does not raise
UpstreamLogs == {<<>>, <<DelKey(ResolveEntry, "type")>>}

\* what iter_all("incidents/{id}/alerts") can deliver next for incident pd_id
UpstreamAlerts(pd_id) ==
    LET good == {AlertDict(id, [t |-> Now, suffix |-> <<"Z">>], pd_id) : id \in AlertPdIds}
    IN  good \cup {DelKey(d, "id") : d \in good}
             \cup {AlertDict(id, [t |-> Now, suffix |-> <<"Z">>], UnknownIncident) :
                        id \in AlertPdIds}

-----------------------------------------------------------------------------
(* updater.py *)

\* BACKFILL_TARGET = datetime.now(timezone.utc) - timedelta(days=args.backfill)
BACKFILL_TARGET == Now - Days(args.backfill)

\* IncidentCacheUpdater.__init__: the window, with its defaults
WindowSince(since) == IF since = None THEN Now - Days(DefaultWindowDays) ELSE The(since)

\* the mutant of WindowUntil: every window ends now
WindowUntilNow(until) == Now

WindowUntil(until) == IF until = None THEN Now ELSE The(until)

\* update_incidents, the try block after Incident.from_pd_api_response has left r1:
\* rget of the log entries, populate_via_api_log, session.add
CacheIncidentLog(r1, rget_raises, log) ==
    IF r1.raised \/ rget_raises
    THEN Raised(r1.st)
    ELSE PopulateViaApiLog(r1.st, r1.id, log)

\* update_incidents, the try block for one record
CacheIncident(st, inc_dict, rget_raises, log) ==
    CacheIncidentLog(IncidentFromPd(st, inc_dict), rget_raises, log)


\* the except block of both loops: logger.exception(..., record["id"], ...) raises
\* KeyError itself when the record has no "id"
HandlerRaises(record) == ~HasKey(record, "id")

\* if len(cached_incidents) >= self.limit: break
LimitReached(cached_incidents, limit) == Len(cached_incidents) >= limit

\* update_alerts, the try block for one record
CacheAlert(st, alert_dict) == AlertFromPd(st, alert_dict)

\* the rows of the query of oldest_incident_ctime, first row first: ORDER BY
\* created_at ASC puts the rows without created_at (NULL) first; the filter
\* "Incident.created_at is not None" is the python constant True and drops none
OldestFirst(st) ==
    IF st.incidents = <<>> THEN None
    ELSE IF \E i \in DOMAIN st.incidents : st.incidents[i].created_at = None
    THEN Some(CHOOSE i \in DOMAIN st.incidents : st.incidents[i].created_at = None)
    ELSE Some(CHOOSE i \in DOMAIN st.incidents :
                \A j \in DOMAIN st.incidents :
                    The(st.incidents[i].created_at) <= The(st.incidents[j].created_at))

\* oldest_incident_ctime: .first() is None, or its created_at is None: the
\* AttributeError is caught and datetime.max returned
OldestIncidentCtime(st) ==
    IF OldestFirst(st) = None \/ st.incidents[The(OldestFirst(st))].created_at = None
    THEN DatetimeMax
    ELSE The(st.incidents[The(OldestFirst(st))].created_at)

\* the mutant of BackfillRequired: an empty cache (datetime.max) asks for no backfill
BackfillRequiredUnlessEmpty(oldest, target) == oldest > target /\ oldest # DatetimeMax

\* the mutant of ShortfallWarned: the warning does not look at the budget
ShortfallWarnedAlways(attempts) == TRUE

\* if update_attempts_remaining <= 0: logger.warning("Failed to backfill ...")
ShortfallWarned(attempts) == attempts <= 0

\* if oldest_inc_ctime > BACKFILL_TARGET
BackfillRequired(oldest, target) == oldest > target

\* the mutant of LoopRuns: the loop does not look at the budget
LoopRunsAlways(attempts) == TRUE

\* while update_attempts_remaining > 0
LoopRuns(attempts) == attempts > 0

\* the budgets a run can start with: the program's is MAX_UPDATE_ATTEMPTS, the
\* model explores the budgets up to MaxBudget
Budgets == {n \in 1..MAX_UPDATE_ATTEMPTS : n <= MaxBudget}

NoCall == [op |-> "none"]

NoIcu == [since |-> 0, until |-> 0, limit |-> 0, cached_incidents |-> <<>>, fetched |-> 0]

NoAcu == [incident_list |-> <<>>, at |-> 1, fetched |-> 0, alert_count |-> 0]

\* database: the rows committed to the database, what another connection reads
NoHist == [budget |-> 0, iterations |-> 0, outcomes |-> <<>>, alerts_ok |-> 0,
           raised_in |-> "", warned |-> FALSE, committed |-> FALSE,
           database |-> EmptyStore]

\* the run of updater.py starts: an empty cache, the command line parsed
Init ==
    /\ mode = "updater"
    /\ store = EmptyStore
    /\ call = NoCall
    /\ pc = "while"
    /\ update_attempts_remaining \in Budgets
    /\ SINCE = None
    /\ UNTIL = None
    /\ args \in [limit : 0..MaxStream, backfill : Backfills]
    /\ icu = NoIcu
    /\ acu = NoAcu
    /\ oldest_inc_ctime = 0
    /\ hist = [NoHist EXCEPT !.budget = update_attempts_remaining]

\* one pass of "while update_attempts_remaining > 0" up to update_incidents():
\* the budget is decremented and the IncidentCacheUpdater built
BeginIteration ==
    /\ pc = "while"
    /\ LoopRuns(update_attempts_remaining)
    /\ update_attempts_remaining' = update_attempts_remaining - 1
    /\ icu' = [since |-> WindowSince(SINCE), until |-> WindowUntil(UNTIL),
               limit |-> args.limit, cached_incidents |-> <<>>, fetched |-> 0]
    /\ hist' = [hist EXCEPT !.iterations = @ + 1]
    /\ pc' = "update_incidents"
    /\ call' = NoCall
    /\ UNCHANGED <<store, mode, SINCE, UNTIL, args, acu, oldest_inc_ctime>>

\* update_incidents, the except and else blocks for the record inc_dict, r the
\* outcome of its try block
IncidentHandled(inc_dict, r) ==
    LET cached == IF r.raised THEN icu.cached_incidents
                  ELSE Append(icu.cached_incidents, r.id)
    IN  /\ store' = r.st
        /\ call' = [op |-> "incident", res_dict |-> inc_dict, raised |-> r.raised]
        /\ icu' = [icu EXCEPT !.cached_incidents = cached, !.fetched = @ + 1]
        /\ hist' = [hist EXCEPT
                     !.outcomes = Append(@, [raised |-> r.raised, id |-> r.id]),
                     !.raised_in = IF r.raised /\ HandlerRaises(inc_dict)
                                   THEN "update_incidents" ELSE @]
        /\ IF r.raised /\ HandlerRaises(inc_dict)
           THEN pc' = "raised" /\ acu' = acu
           ELSE IF ~r.raised /\ LimitReached(cached, icu.limit)
           THEN /\ pc' = "update_alerts"
                /\ acu' = [incident_list |-> cached, at |-> 1, fetched |-> 0,
                           alert_count |-> 0]
           ELSE pc' = "update_incidents" /\ acu' = acu

\* update_incidents: iter_all delivers one more record and the loop body runs
ProcessIncident ==
    /\ pc = "update_incidents"
    /\ icu.fetched < MaxStream
    /\ \E inc_dict \in UpstreamIncidents(icu.since, icu.until),
          rget_raises \in BOOLEAN, log \in UpstreamLogs :
            IncidentHandled(inc_dict, CacheIncident(store, inc_dict, rget_raises, log))
    /\ UNCHANGED <<mode, update_attempts_remaining, SINCE, UNTIL, args, oldest_inc_ctime>>


\* ReturnIncidents with the AlertCacheUpdater built over every cached incident
ReturnIncidentsAllCached ==
    /\ pc = "update_incidents"
    /\ pc' = "update_alerts"
    /\ acu' = [incident_list |-> [i \in DOMAIN store.incidents |-> i], at |-> 1,
               fetched |-> 0, alert_count |-> 0]
    /\ call' = NoCall
    /\ UNCHANGED <<store, mode, update_attempts_remaining, SINCE, UNTIL, args, icu,
                   oldest_inc_ctime, hist>>

\* update_incidents: iter_all is exhausted, cached_incidents is returned and the
\* AlertCacheUpdater built over it
ReturnIncidents ==
    /\ pc = "update_incidents"
    /\ pc' = "update_alerts"
    /\ acu' = [incident_list |-> icu.cached_incidents, at |-> 1, fetched |-> 0,
               alert_count |-> 0]
    /\ call' = NoCall
    /\ UNCHANGED <<store, mode, update_attempts_remaining, SINCE, UNTIL, args, icu,
                   oldest_inc_ctime, hist>>

\* update_alerts, the except and else blocks for the record alert_dict, r the
\* outcome of its try block
AlertHandled(alert_dict, r) ==
    /\ store' = r.st
    /\ call' = [op |-> "alert", res_dict |-> alert_dict, raised |-> r.raised]
    /\ acu' = [acu EXCEPT !.fetched = @ + 1,
                          !.alert_count = IF r.raised THEN @ ELSE @ + 1]
    /\ hist' = [hist EXCEPT
                 !.alerts_ok = IF r.raised THEN @ ELSE @ + 1,
                 !.raised_in = IF r.raised /\ HandlerRaises(alert_dict)
                               THEN "update_alerts" ELSE @]
    /\ pc' = IF r.raised /\ HandlerRaises(alert_dict) THEN "raised" ELSE pc

\* update_alerts: iter_all delivers one more alert of the incident at hand
ProcessAlert ==
    /\ pc = "update_alerts"
    /\ acu.at <= Len(acu.incident_list)
    /\ acu.fetched < MaxAlerts
    /\ \E alert_dict \in UpstreamAlerts(store.incidents[acu.incident_list[acu.at]].pd_id) :
            AlertHandled(alert_dict, CacheAlert(store, alert_dict))
    /\ UNCHANGED <<mode, update_attempts_remaining, SINCE, UNTIL, args, icu,
                   oldest_inc_ctime>>


\* update_alerts: the alerts of the incident at hand are exhausted
NextIncident ==
    /\ pc = "update_alerts"
    /\ acu.at <= Len(acu.incident_list)
    /\ acu' = [acu EXCEPT !.at = @ + 1, !.fetched = 0]
    /\ call' = NoCall
    /\ UNCHANGED <<store, mode, pc, update_attempts_remaining, SINCE, UNTIL, args,
                   icu, oldest_inc_ctime, hist>>

\* update_alerts returns; oldest_incident_ctime and the backfill decision. The
\* two updaters of this pass are not used again.
CheckBackfill ==
    /\ pc = "update_alerts"
    /\ acu.at > Len(acu.incident_list)
    /\ oldest_inc_ctime' = OldestIncidentCtime(store)
    /\ IF BackfillRequired(oldest_inc_ctime', BACKFILL_TARGET)
       THEN /\ SINCE' = Some(BACKFILL_TARGET - Days(ChatterDays))
            /\ UNTIL' = Some(oldest_inc_ctime')
            /\ hist' = [hist EXCEPT !.warned = ShortfallWarned(update_attempts_remaining),
                                    !.outcomes = <<>>, !.alerts_ok = 0]
            /\ UNCHANGED update_attempts_remaining
       ELSE /\ update_attempts_remaining' = 0
            /\ hist' = [hist EXCEPT !.outcomes = <<>>, !.alerts_ok = 0]
            /\ UNCHANGED <<SINCE, UNTIL>>
    /\ pc' = "while"
    /\ call' = NoCall
    /\ icu' = NoIcu
    /\ acu' = NoAcu
    /\ UNCHANGED <<store, mode, args>>

\* the while loop ends and the "with db_sess.begin()" block commits: the rows
\* of the session become the rows of the database
Commit ==
    /\ pc = "while"
    /\ ~LoopRuns(update_attempts_remaining)
    /\ pc' = "done"
    /\ hist' = [hist EXCEPT !.committed = TRUE, !.database = store]
    /\ UNCHANGED <<store, mode, call, update_attempts_remaining, SINCE, UNTIL, args, icu,
                   acu, oldest_inc_ctime>>

\* the mutant of Rollback: what the session has flushed stays in the database
RollbackKeepsFlushed ==
    /\ pc = "raised"
    /\ pc' = "failed"
    /\ hist' = [hist EXCEPT !.database = store]
    /\ UNCHANGED <<store, mode, call, update_attempts_remaining, SINCE, UNTIL, args, icu,
                   acu, oldest_inc_ctime>>

\* an exception leaves the "with db_sess.begin()" block: the transaction is
\* rolled back, the session keeps none of its pending rows and the database is
\* what it was; the exception then ends the program
Rollback ==
    /\ pc = "raised"
    /\ pc' = "failed"
    /\ store' = hist.database
    /\ UNCHANGED <<mode, call, update_attempts_remaining, SINCE, UNTIL, args, icu,
                   acu, oldest_inc_ctime, hist>>

Next ==
    \/ BeginIteration
    \/ ProcessIncident
    \/ ReturnIncidents
    \/ ProcessAlert
    \/ NextIncident
    \/ CheckBackfill
    \/ Commit
    \/ Rollback

Spec == Init /\ [][Next]_vars

-----------------------------------------------------------------------------
(* The models called directly, one class at a time, as test_models.py does:   *)
(* get_or_create and from_pd_api_response of PDTeam, PDAgent, Incident, Alert *)

\* the controller's variables while the updater is not running
ControllerIdle ==
    /\ pc = "none"
    /\ update_attempts_remaining = 0
    /\ SINCE = None
    /\ UNTIL = None
    /\ args = [limit |-> 0, backfill |-> 0]
    /\ icu = NoIcu
    /\ acu = NoAcu
    /\ oldest_inc_ctime = 0
    /\ hist = NoHist

ControllerUnchanged ==
    UNCHANGED <<pc, update_attempts_remaining, SINCE, UNTIL, args, icu, acu,
                oldest_inc_ctime, hist>>

StorePdIds == {"P1", "P2"}

\* names and URLs: None, the empty string, short ones, one past the column's length
StoreNames == {None, Some(<<>>), Some(<<"a">>), Some(Filler(NameLength + 1))}

StoreUrls == {None, Some(<<"u", "r", "l">>)}

Zulu(t) == [t |-> t, suffix |-> <<"Z">>]

\* an instant of the day before, in another shift
Yesterday == Now - Days(1) + 9 * MinutesPerHour

\* the records a test can hand to cls.from_pd_api_response
StoreRecords(kind) ==
    CASE kind = "incidents" ->
           LET good == {[IncidentDict(id, Zulu(t), u) EXCEPT !.summary = n] :
                            id \in StorePdIds, t \in {Now, Now - Days(1)},
                            u \in {"low", "high"}, n \in {Some(<<"a">>), Some(<<"b">>)}}
           IN  good \cup {DelKey(d, "urgency") : d \in good}
      [] kind = "alerts" ->
           LET good == {[AlertDict(id, Zulu(t), "I1") EXCEPT !.status = s, !.html_url = u] :
                            id \in StorePdIds, t \in {Now, Yesterday},
                            s \in {"triggered", "resolved"}, u \in StoreUrls}
           IN  good \cup {DelKey(d, "severity") : d \in good}
      [] OTHER ->
           LET good == {[id |-> id, summary |-> n, html_url |-> u] :
                            id \in StorePdIds, n \in StoreNames, u \in StoreUrls}
           IN  good \cup {DelKey(d, "summary") : d \in good}

\* cls.from_pd_api_response of the class of table kind
FromPd(st, kind, res_dict) ==
    CASE kind = "incidents" -> IncidentFromPd(st, res_dict)
      [] kind = "alerts" -> AlertFromPd(st, res_dict)
      [] OTHER -> EntityFromPd(st, kind, res_dict)

\* TestAlert.setUp caches the incident of the sample alerts first
InitStore(kind) ==
    IF kind = "alerts"
    THEN IncidentFromPd(EmptyStore, IncidentDict("I1", Zulu(Now), "high")).st
    ELSE EmptyStore

InitModels ==
    /\ mode \in Kinds
    /\ store = InitStore(mode)
    /\ call = [NoCall EXCEPT !.op = "setUp"]
    /\ ControllerIdle

\* get_or_create never raises: g is what it returns
GetOrCreateReturned(g) == Returned(g.st, g.id)

\* the call has left the outcome r
Called(op, res_dict, r) ==
    /\ store' = r.st
    /\ call' = [op |-> op, res_dict |-> res_dict, raised |-> r.raised, id |-> r.id]

\* cls.get_or_create(session, pd_id, name, html_url)
CallGetOrCreate ==
    /\ mode \in {"pd_teams", "pd_agents"}
    /\ \E pd_id \in StorePdIds, name \in StoreNames, html_url \in StoreUrls :
        Called("get_or_create", [id |-> pd_id, summary |-> name, html_url |-> html_url],
               GetOrCreateReturned(GetOrCreate(store, mode, pd_id, name, html_url)))
    /\ UNCHANGED mode
    /\ ControllerUnchanged

\* cls.from_pd_api_response(session, res_dict)
CallFromPd ==
    /\ mode \in Kinds
    /\ \E res_dict \in StoreRecords(mode) :
        Called("from_pd_api_response", res_dict, FromPd(store, mode, res_dict))
    /\ UNCHANGED mode
    /\ ControllerUnchanged

SpecModels == InitModels /\ [][CallGetOrCreate \/ CallFromPd]_vars

\* the name a row of the class shows after from_pd_api_response(res_dict) returned
LatestName(kind, res_dict) ==
    IF kind = "alerts" /\ ~NoDetail(res_dict, "alert_name")
                       /\ ~StandardizeNameRaises(res_dict.body.details.alert_name)
    THEN Some(StandardizeName(res_dict.body.details.alert_name))
    ELSE Truncated(res_dict.summary)

\* the fields from_pd_api_response extracts again from res_dict, as row holds them
LatestFields(kind, row, res_dict) ==
    CASE kind = "incidents" ->
           /\ row.created_at = Some(Timestamp(res_dict, "created_at"))
           /\ row.service = Some(Prefix(res_dict.service.summary, ServiceLength))
           /\ row.status = Some(res_dict.status)
           /\ row.urgency = Some(res_dict.urgency)
      [] kind = "alerts" ->
           /\ row.created_at = Some(Timestamp(res_dict, "created_at"))
           /\ row.shift = Some(CalculateShift(Timestamp(res_dict, "created_at")))
           /\ row.status = Some(res_dict.status)
           /\ row.severity = Some(res_dict.severity)
           /\ row.suppressed = Some(res_dict.suppressed)
      [] OTHER -> TRUE

OneRowPerPdId(st) ==
    \A kind \in Kinds : \A i, j \in DOMAIN st[kind] :
        st[kind][i].pd_id = st[kind][j].pd_id => i = j

\* C1: for each of the four classes and every sequence of get_or_create and
\* from_pd_api_response calls in one session, the store holds at most one row per
\* pd_id; a call with a pd_id that is cached already creates no row and, when it
\* returns, returns the row that was there (the same id) with name, html_url and
\* the fields extracted again holding the values of this call.
C1_UpsertInPlace ==
    [][ LET res_dict == call'.res_dict
            cached == IF HasKey(res_dict, "id")
                      THEN QueryFirst(store, mode, res_dict.id) ELSE 0
        IN  mode \in Kinds =>
              /\ OneRowPerPdId(store')
              /\ cached # 0 => Len(store'[mode]) = Len(store[mode])
              /\ cached # 0 /\ ~call'.raised =>
                    /\ call'.id = cached
                    /\ store'[mode][cached].pd_id = res_dict.id
                    /\ store'[mode][cached].html_url = Truncated(res_dict.html_url)
                    /\ store'[mode][cached].name = LatestName(mode, res_dict)
                    /\ call'.op = "from_pd_api_response" =>
                          LatestFields(mode, store'[mode][cached], res_dict)
      ]_vars

\* a second row exists and the last call has returned the first one: its pd_id
\* was cached before, and the row now holds a name that differs from the call
\* that would have created it
C1_Witness ==
    /\ mode = "incidents"
    /\ call.op = "from_pd_api_response"
    /\ ~call.raised
    /\ Len(store.incidents) = 2
    /\ call.id = 1
    /\ store.incidents[1].urgency = Some("low")
    /\ store.incidents[1].name = Some(<<"b">>)

-----------------------------------------------------------------------------
(* Incident.assigned_to driven directly: assignment, append and remove, each  *)
(* through its listener                                                       *)

\* the most members assigned_to is given
MaxAssigned == 3

Bob == <<"B", "o", "b">>

SilentTestAgent == <<"S", "i", "l", "e", "n", "t", " ", "T", "e", "s", "t">>

SilentTester == <<"a", " ", "s", "i", "l", "e", "n", "t", " ", "t", "e", "s", "t", "e", "r">>

\* one cached incident (row 1) and three cached agents (rows 1..3), two of them
\* with 'silent test' in their name
AssignedToStore ==
    LET s0 == IncidentFromPd(EmptyStore, IncidentDict("I1", Zulu(Now), "high")).st
        s1 == EntityFromPd(s0, "pd_agents", AgentDict("U1", Bob)).st
        s2 == EntityFromPd(s1, "pd_agents", AgentDict("U2", SilentTestAgent)).st
    IN  EntityFromPd(s2, "pd_agents", AgentDict("U3", SilentTester)).st

AgentLists == UNION {[1..n -> DOMAIN AssignedToStore.pd_agents] : n \in 0..MaxAssigned}

InitAssignedTo ==
    /\ mode = "assigned_to"
    /\ store = AssignedToStore
    /\ call = [NoCall EXCEPT !.op = "setUp"]
    /\ ControllerIdle

\* inc.assigned_to = value. Which listeners the replacement of a collection
\* runs is the library's choice: the "set" listener as registered, or the
\* "append" and "remove" listeners member by member.
Assign ==
    /\ mode = "assigned_to"
    /\ \E value \in AgentLists :
            \/ store' = SetAssignedTo(store, 1, value)
            \/ store' = BulkReplace(store, 1, value)
    /\ call' = [op |-> "set"]
    /\ UNCHANGED mode
    /\ ControllerUnchanged

\* inc.assigned_to.append(child)
AssignAppend ==
    /\ mode = "assigned_to"
    /\ Len(store.incidents[1].assigned_to) < MaxAssigned
    /\ \E child \in DOMAIN store.pd_agents :
            /\ store' = AppendAssignedTo(store, 1, child)
            /\ call' = [op |-> "append", child |-> child]
    /\ UNCHANGED mode
    /\ ControllerUnchanged

\* inc.assigned_to.remove(child)
AssignRemove ==
    /\ mode = "assigned_to"
    /\ \E i \in DOMAIN store.incidents[1].assigned_to :
            /\ store' = RemoveAssignedTo(store, 1, store.incidents[1].assigned_to[i])
            /\ call' = [op |-> "remove", child |-> store.incidents[1].assigned_to[i]]
    /\ UNCHANGED mode
    /\ ControllerUnchanged

SpecAssignedTo == InitAssignedTo /\ [][Assign \/ AssignAppend \/ AssignRemove]_vars

\* agent row a is a member of the assigned_to of incident row inc
Assigned(st, inc, a) ==
    \E i \in DOMAIN st.incidents[inc].assigned_to : st.incidents[inc].assigned_to[i] = a

\* C2: after any sequence of assignments, appends and removes on assigned_to,
\* silenced is true exactly when an agent whose name contains 'silent test'
\* (case-insensitive) is a member of assigned_to.
C2_SilencedTracksAssignedTo ==
    mode = "assigned_to" =>
        (store.incidents[1].silenced <=>
            \E a \in DOMAIN store.pd_agents :
                Assigned(store, 1, a) /\ IsSilentTest(store.pd_agents[a]))

-----------------------------------------------------------------------------
(* The run of updater.py *)

\* ProcessIncident: update_incidents has taken one more record from its stream
IncidentStep == pc = "update_incidents" /\ icu'.fetched = icu.fetched + 1

\* ProcessAlert: update_alerts has taken one more record from a stream
AlertStep == pc = "update_alerts" /\ acu'.fetched = acu.fetched + 1

\* an iteration has ended and the loop condition is about to be evaluated
IterationEnded == mode = "updater" /\ pc = "while" /\ hist.iterations > 0

\* C3: after any sequence of update_alerts calls, calls in which alert records
\* fail included, every Alert row of the session references an Incident of the
\* store: no Alert row has its incident unset.
C3_AlertsReferenceIncident ==
    (mode = "updater" /\ pc \in {"while", "done"}) =>
        \A a \in DOMAIN store.alerts :
            /\ store.alerts[a].incident # None
            /\ The(store.alerts[a].incident) \in DOMAIN store.incidents

\* C4: when update_alerts processes an alert record whose incident's pd_id is not
\* in the store, the failure is caught (the call goes on and does not raise), the
\* alert is not counted, and no Alert row is created.
C4_AbsentIncidentCreatesNoAlert ==
    [][ (/\ AlertStep
         /\ HasKey(call'.res_dict, "id")
         /\ HasKey(call'.res_dict, "incident")
         /\ QueryFirst(store, "incidents", call'.res_dict.incident.id) = 0) =>
            /\ pc' = "update_alerts"
            /\ acu'.alert_count = acu.alert_count
            /\ Len(store'.alerts) = Len(store.alerts)
      ]_vars

\* C5: in update_incidents every exception raised while one record is processed
\* (the record lacking 'id' included) is caught and the record skipped: nothing
\* propagates out of update_incidents and the stream's later records are still
\* processed.
C5_IncidentFailureIsSkipped ==
    [][ (IncidentStep /\ call'.raised) =>
            /\ pc' = "update_incidents"
            /\ icu'.cached_incidents = icu.cached_incidents
      ]_vars

Succeeded(outcome) == ~outcome.raised

\* the ids of the records of outcomes that were processed without exception
Successes(outcomes) ==
    LET ok == SelectSeq(outcomes, Succeeded)
    IN  [i \in DOMAIN ok |-> ok[i].id]

\* C6: for every limit and every stream, update_incidents returns, in delivery
\* order, exactly the incidents whose processing completed without exception,
\* never more than limit of them, and consumes no record after the limit-th
\* success.
C6_ReturnsSuccessesUpToLimit ==
    (mode = "updater" /\ pc = "update_alerts") =>
        /\ acu.incident_list = Successes(hist.outcomes)
        /\ Len(acu.incident_list) <= icu.limit
        /\ \A k \in DOMAIN hist.outcomes :
                Len(Successes(SubSeq(hist.outcomes, 1, k - 1))) < icu.limit

\* C7: a failure on one alert record stops neither the remaining alerts of its
\* incident nor the following incidents, and the count is the number of alert
\* records processed without exception.
C7_AlertFailureIsSkipped ==
    [][ AlertStep =>
            IF call'.raised
            THEN pc' = "update_alerts" /\ acu'.alert_count = acu.alert_count
            ELSE pc' = "update_alerts" /\ acu'.alert_count = acu.alert_count + 1
      ]_vars

\* C8: for every budget N >= 1, every target and every upstream, the loop makes at
\* most N iterations and then reaches Done (until then the run can go on); with
\* an empty cache and budget 3 it has ended after at most 3 iterations with the
\* shortfall warning.
C8_BoundedIterationsThenDone ==
    mode = "updater" =>
        /\ hist.iterations <= hist.budget
        /\ pc # "done" => ENABLED Next
        /\ (pc = "done" /\ hist.budget = 3 /\ store.incidents = <<>>) =>
                hist.iterations <= 3 /\ hist.warned

C11_OneTransaction ==
    /\ pc # "done" => hist.database = EmptyStore /\ ~hist.committed
    /\ pc = "done" => hist.database = store /\ hist.committed
    /\ pc = "failed" => store = EmptyStore

\* two passes have written incidents and the run has committed them
C11_Witness ==
    /\ pc = "done"
    /\ hist.iterations >= 2
    /\ Len(hist.database.incidents) >= 2

C13_NoBackfillOnePass ==
    [][(IterationEnded /\ args.backfill = 0) =>
         /\ hist.iterations = 1
         /\ pc' = "done"]_vars

-----------------------------------------------------------------------------
(* One incident synced again and again, as the try block of update_incidents *)
(* does when a window delivers an incident that is already cached:           *)
(* from_pd_api_response, then populate_via_api_log over the log of the day   *)

\* the entries all syncs of one behaviour reconcile together, and the syncs
MaxEntries == 3

MaxSyncs == 2

U1 == AgentDict("U1", Bob)

U2 == AgentDict("U2", <<"A", "n", "n">>)

ResolveLog(t, agent) ==
    [type |-> "resolve_log_entry", created_at |-> Some(Zulu(t)), agent |-> agent]

AcknowledgeLog(agent) ==
    [type |-> "acknowledge_log_entry", created_at |-> Some(Zulu(Now)), agent |-> agent]

AssignLog(assignees) ==
    [type |-> "assign_log_entry", created_at |-> Some(Zulu(Now)), agent |-> U1,
     assignees |-> assignees]

NotifyLog ==
    [type |-> "notify_log_entry", created_at |-> Some(Zulu(Now)), agent |-> U1]

\* entries with every sub-field
WellFormedEntries ==
    {ResolveLog(Now, U1), ResolveLog(Now + MinutesPerHour, U2), AcknowledgeLog(U1),
     AssignLog(<<U1>>), AssignLog(<<U1, U2>>), NotifyLog}

\* entries that lack a sub-field: type, agent, assignees, the id of an agent
MalformedEntries ==
    {DelKey(AcknowledgeLog(U1), "type"), DelKey(AcknowledgeLog(U1), "agent"),
     DelKey(AssignLog(<<U1>>), "assignees"),
     ResolveLog(Now, DelKey(U2, "id"))}

\* what rget("incidents/{id}/log_entries") can answer with at most n entries
Logs(n) == UNION {[1..k -> WellFormedEntries \cup MalformedEntries] : k \in 0..n}

ReconciledIncident == IncidentDict("I1", Zulu(Now), "high")

NoSync == [op |-> "none", n |-> 0, entries |-> 0, log |-> <<>>, raised |-> FALSE]

InitReconcile ==
    /\ mode = "reconcile"
    /\ store = EmptyStore
    /\ call = NoSync
    /\ ControllerIdle

\* the try block of update_incidents for the incident, r its outcome
Synced(log, r) ==
    /\ store' = r.st
    /\ call' = [op |-> "sync", n |-> call.n + 1, entries |-> call.entries + Len(log),
                log |-> log, raised |-> r.raised]

Sync ==
    /\ mode = "reconcile"
    /\ call.n < MaxSyncs
    /\ \E log \in Logs(MaxEntries - call.entries) :
            Synced(log, CacheIncident(store, ReconciledIncident, FALSE, log))
    /\ UNCHANGED mode
    /\ ControllerUnchanged

SpecReconcile == InitReconcile /\ [][Sync]_vars

\* the assignees of every assign_log_entry of a log, in stream order
RECURSIVE AssigneesOf(_)
AssigneesOf(log) ==
    IF log = <<>> THEN <<>>
    ELSE IF HasKey(Head(log), "type") /\ Head(log).type = "assign_log_entry"
              /\ HasKey(Head(log), "assignees")
    THEN Head(log).assignees \o AssigneesOf(Tail(log))
    ELSE AssigneesOf(Tail(log))

\* no value occurs twice in the sequence
NoRepeat(s) == \A i, j \in DOMAIN s : s[i] = s[j] => i = j

\* C14: after any sequence of syncs of an incident, each agent is at most once
\* in its assigned_to and at most once in its acknowledged_by, and assigned_to
\* has as many members as the latest log lists assignees.
C14_AgentsOnce ==
    (mode = "reconcile" /\ call.op = "sync" /\ ~call.raised) =>
        \A i \in DOMAIN store.incidents :
            /\ NoRepeat(store.incidents[i].assigned_to)
            /\ NoRepeat(store.incidents[i].acknowledged_by)
            /\ Len(store.incidents[i].assigned_to) = Len(AssigneesOf(call.log))

\* the log without the entries that lack a sub-field
WellFormedOf(log) == SelectSeq(log, LAMBDA e : e \in WellFormedEntries)

\* C15: populate_via_api_log never raises, whatever the stream of entries: an
\* entry that lacks an expected sub-field is skipped and every entry after it is
\* still applied, so that the sync leaves what the sync of the log without its
\* malformed entries leaves.
C15_MalformedEntrySkipped ==
    [][mode = "reconcile" =>
         /\ ~call'.raised
         /\ store' = CacheIncident(store, ReconciledIncident, FALSE,
                                   WellFormedOf(call'.log)).st]_vars

EntriesOfType(log, type) == SelectSeq(log, LAMBDA e : e.type = type)

\* the rows of the agents of a list of agent records
AgentRows(st, agents) ==
    [i \in DOMAIN agents |-> QueryFirst(st, "pd_agents", agents[i].id)]

LastOf(s) == s[Len(s)]

\* C16: reconciling a well-formed log against a freshly created incident gives
\* resolved_at and resolved_by of the last resolve_log_entry in stream order,
\* one member of acknowledged_by per acknowledge_log_entry, one member of
\* assigned_to per assignee of every assign_log_entry, and entries of any other
\* type change no field: every other field is as from_pd_api_response left it,
\* and the store is the one the log without those entries gives.
C16_FreshReconcile ==
    [][(mode = "reconcile" /\ store.incidents = <<>>
          /\ \A i \in DOMAIN call'.log : call'.log[i] \in WellFormedEntries) =>
         LET log == call'.log
             inc == store'.incidents[1]
             resolves == EntriesOfType(log, "resolve_log_entry")
             acks == EntriesOfType(log, "acknowledge_log_entry")
         IN  /\ ~call'.raised
             /\ Len(store'.incidents) = 1
             /\ IF resolves = <<>>
                THEN inc.resolved_at = None /\ inc.resolved_by = None
                ELSE /\ inc.resolved_at = Some(The(LastOf(resolves).created_at).t)
                     /\ inc.resolved_by # None
                     /\ store'.pd_agents[The(inc.resolved_by)].pd_id
                            = LastOf(resolves).agent.id
             /\ inc.acknowledged_by
                    = AgentRows(store', [i \in DOMAIN acks |-> acks[i].agent])
             /\ inc.assigned_to = AgentRows(store', AssigneesOf(log))
             /\ \A i \in DOMAIN inc.assigned_to : inc.assigned_to[i] # 0
             /\ \A i \in DOMAIN inc.acknowledged_by : inc.acknowledged_by[i] # 0
             /\ [inc EXCEPT !.resolved_at = None, !.resolved_by = None,
                            !.acknowledged_by = <<>>, !.assigned_to = <<>>]
                    = IncidentFromPd(store, ReconciledIncident).st.incidents[1]
             /\ store' = CacheIncident(store, ReconciledIncident, FALSE,
                             SelectSeq(log, LAMBDA e : e # NotifyLog)).st]_vars

\* a fresh incident reconciled with two resolutions and an assignment of two
C16_Witness ==
    /\ mode = "reconcile"
    /\ call.n = 1
    /\ call.log = <<ResolveLog(Now + MinutesPerHour, U2), ResolveLog(Now, U1),
                    AssignLog(<<U1, U2>>)>>
    /\ store.incidents[1].resolved_at = Some(Now)
    /\ Len(store.incidents[1].assigned_to) = 2

\* the agents of SpecAssignedTo whose name contains 'silent test', whatever the
\* case of its letters: "Silent Test" and "a silent tester"
NamedSilentTest(agent) == agent.name \in {Some(SilentTestAgent), Some(SilentTester)}

\* C17: appending an agent whose name contains 'silent test' to assigned_to
\* sets silenced to true, removing it sets silenced to false, and appending or
\* removing any other agent leaves silenced as it was.
C17_AppendRemoveSilenced ==
    [][(mode = "assigned_to" /\ call'.op \in {"append", "remove"}) =>
         store'.incidents[1].silenced =
            IF NamedSilentTest(store.pd_agents[call'.child])
            THEN call'.op = "append"
            ELSE store.incidents[1].silenced]_vars

\* test_silenced: "Silent Test" was appended and has been removed again, the
\* incident is not silenced
C17_Witness ==
    /\ mode = "assigned_to"
    /\ call = [op |-> "remove", child |-> 2]
    /\ store.pd_agents[2].name = Some(SilentTestAgent)
    /\ store.incidents[1].assigned_to = <<1>>
    /\ ~store.incidents[1].silenced

\* C18: in every state, every Alert built or updated through
\* from_pd_api_response has the shift calculate_shift gives for its current
\* created_at, and none while created_at is unset: every assignment of
\* created_at has computed shift again.
C18_ShiftOfCreatedAt ==
    mode = "alerts" =>
        \A a \in DOMAIN store.alerts :
            IF store.alerts[a].created_at = None
            THEN store.alerts[a].shift = None
            ELSE store.alerts[a].shift =
                    Some(CalculateShift(The(store.alerts[a].created_at)))

\* the alert cached first has been handed to from_pd_api_response again and
\* holds the created_at and the shift of the day before
C18_Witness ==
    /\ mode = "alerts"
    /\ call.op = "from_pd_api_response"
    /\ ~call.raised
    /\ Len(store.alerts) = 2
    /\ call.id = 1
    /\ store.alerts[2].created_at = Some(Now)
    /\ store.alerts[1].created_at = Some(Yesterday)
    /\ store.alerts[1].shift = Some([shift |-> "EMEA", date |-> DateOf(Now) - 1])

-----------------------------------------------------------------------------
(* The class methods of Alert that compute a value from their argument alone, *)
(* called once on an argument: calculate_shift and standardize_name           *)

\* datetime(year, month, day, hour, minute, tzinfo=timezone.utc), day the
\* number of the calendar day
Datetime(day, hour, minute) == day * MinutesPerDay + hour * MinutesPerHour + minute

\* the parts a raw alert name is put together from, and how many of them
MaxParts == 2

NameParts ==
    {ClusterProvisioningDelay, HasGoneMissing, HeartbeatPingHasFailed, CustEscalation,
     <<"f", "o", "o">>, <<" ">>, <<"\n">>, Filler(StandardNameLength + 1)}

RECURSIVE Joined(_)
Joined(parts) == IF parts = <<>> THEN <<>> ELSE Head(parts) \o Joined(Tail(parts))

\* the raw names of at most n parts, and None
RawNames(n) ==
    {None} \cup {Some(Joined(parts)) : parts \in UNION {[1..k -> NameParts] : k \in 0..n}}

\* the raw names that are no str and not None: a number, and the lists of at
\* most n str
NonTextNames(n) ==
    {[number |-> 5]}
        \cup {[list |-> items] : items \in UNION {[1..k -> NameParts] : k \in 0..n}}

\* Alert.standardize_name of a raw_name that is no str raises TypeError: "in"
\* of a number is a TypeError; "in" of a list looks for an element equal to the
\* literal, and a list that holds none has no split() (AttributeError)
StandardizeNonTextRaises(raw_name) ==
    \/ HasKey(raw_name, "number")
    \/ ~\E i \in DOMAIN raw_name.list :
            raw_name.list[i] \in {ClusterProvisioningDelay, HasGoneMissing,
                                  HeartbeatPingHasFailed, CustEscalation}

\* Alert.standardize_name of a list, when it returns
StandardizeNonText(raw_name) ==
    LET Holds(lit) == \E i \in DOMAIN raw_name.list : raw_name.list[i] = lit
    IN  IF Holds(ClusterProvisioningDelay) THEN ClusterProvisioningDelay
        ELSE IF Holds(HasGoneMissing) THEN ClusterHasGoneMissing
        ELSE IF Holds(HeartbeatPingHasFailed) THEN HeartbeatPingFailed
        ELSE CustomerEscalation

InitFunctions ==
    /\ mode \in {"calculate_shift", "standardize_name", "standardize_non_text"}
    /\ store = EmptyStore
    /\ call \in CASE mode = "calculate_shift" ->
                      [op : {"argument"}, day : {DateOf(Now) - 1, DateOf(Now)},
                       hour : 0..(HoursPerDay - 1), minute : 0..(MinutesPerHour - 1)]
                  [] mode = "standardize_name" ->
                      [op : {"argument"}, raw_name : RawNames(MaxParts)]
                  [] OTHER ->
                      [op : {"argument"}, raw_name : NonTextNames(MaxParts)]
    /\ ControllerIdle

\* Alert.calculate_shift(date_time)
CallCalculateShift ==
    /\ mode = "calculate_shift"
    /\ call.op = "argument"
    /\ call' = [op |-> "calculate_shift", day |-> call.day, hour |-> call.hour,
                minute |-> call.minute,
                result |-> CalculateShift(Datetime(call.day, call.hour, call.minute))]
    /\ UNCHANGED <<store, mode>>
    /\ ControllerUnchanged

\* Alert.standardize_name(raw_name)
CallStandardizeName ==
    /\ mode = "standardize_name"
    /\ call.op = "argument"
    /\ call' = [op |-> "standardize_name", raw_name |-> call.raw_name,
                raised |-> StandardizeNameRaises(call.raw_name),
                result |-> IF StandardizeNameRaises(call.raw_name) THEN <<>>
                           ELSE StandardizeName(call.raw_name)]
    /\ UNCHANGED <<store, mode>>
    /\ ControllerUnchanged

\* Alert.standardize_name(raw_name), raw_name no str
CallStandardizeNonText ==
    /\ mode = "standardize_non_text"
    /\ call.op = "argument"
    /\ call' = [op |-> "standardize_name", raw_name |-> call.raw_name,
                raised |-> StandardizeNonTextRaises(call.raw_name),
                result |-> IF StandardizeNonTextRaises(call.raw_name) THEN <<>>
                           ELSE StandardizeNonText(call.raw_name)]
    /\ UNCHANGED <<store, mode>>
    /\ ControllerUnchanged

SpecFunctions ==
    InitFunctions
        /\ [][CallCalculateShift \/ CallStandardizeName \/ CallStandardizeNonText]_vars

\* the shift of the half-open interval that holds minute m of the day
ShiftOfMinute(m) ==
    CASE m < 3 * 60 + 30 -> "APAC 1"
      [] 3 * 60 + 30 <= m /\ m < 8 * 60 + 30 -> "APAC 2"
      [] 8 * 60 + 30 <= m /\ m < 13 * 60 + 30 -> "EMEA"
      [] 13 * 60 + 30 <= m /\ m < 18 * 60 -> "NASA 1"
      [] 18 * 60 <= m /\ m < 22 * 60 + 30 -> "NASA 2"
      [] 22 * 60 + 30 <= m -> "APAC 1"

FirstToken(text) ==
    LET first == CHOOSE i \in DOMAIN text :
                    text[i] \notin Whitespace /\ \A k \in 1..(i - 1) : text[k] \in Whitespace
        last == CHOOSE j \in first..Len(text) :
                    /\ \A k \in first..j : text[k] \notin Whitespace
                    /\ j = Len(text) \/ text[j + 1] \in Whitespace
    IN  SubSeq(text, first, Min(last, first + 500 - 1))

\* the result of the earliest rule that matches the text
FirstMatchingRule(text) ==
    CASE Contains(text, ClusterProvisioningDelay) -> ClusterProvisioningDelay
      [] /\ ~Contains(text, ClusterProvisioningDelay)
         /\ Contains(text, HasGoneMissing) -> ClusterHasGoneMissing
      [] /\ ~Contains(text, ClusterProvisioningDelay)
         /\ ~Contains(text, HasGoneMissing)
         /\ Contains(text, HeartbeatPingHasFailed) -> HeartbeatPingFailed
      [] /\ ~Contains(text, ClusterProvisioningDelay)
         /\ ~Contains(text, HasGoneMissing)
         /\ ~Contains(text, HeartbeatPingHasFailed)
         /\ Contains(text, CustEscalation) -> CustomerEscalation
      [] OTHER -> FirstToken(text)

\* C20 as stated: for every non-empty text, standardize_name returns the result
\* of the first rule that matches, in the order ClusterProvisioningDelay, 'has
\* gone missing', 'Heartbeat.ping has failed', 'CUST ESCALATION', and otherwise
\* the first whitespace-delimited token cut to 500 characters.
C20_ReturnsForNonEmptyText ==
    (mode = "standardize_name" /\ call.op = "standardize_name"
       /\ call.raw_name # None /\ The(call.raw_name) # <<>>) =>
        /\ ~call.raised
        /\ call.result = FirstMatchingRule(The(call.raw_name))

\* C20, amended: for every text that holds a character other than whitespace,
\* standardize_name returns the result of the first rule that matches, in the
\* order above, and otherwise the first whitespace-delimited token cut to 500
\* characters; for a text of whitespace only, as for the empty text, it raises
\* TypeError.
C20_ReturnsForTextWithToken ==
    (mode = "standardize_name" /\ call.op = "standardize_name" /\ call.raw_name # None) =>
        IF \E i \in DOMAIN The(call.raw_name) : The(call.raw_name)[i] \notin Whitespace
        THEN /\ ~call.raised
             /\ call.result = FirstMatchingRule(The(call.raw_name))
        ELSE call.raised

\* a name that matches the second rule and, further on, the first
C20_Witness ==
    /\ mode = "standardize_name"
    /\ call.op = "standardize_name"
    /\ call.raw_name = Some(HasGoneMissing \o ClusterProvisioningDelay)
    /\ ~call.raised
    /\ call.result = ClusterProvisioningDelay

\* C21: standardize_name fails with the invalid-name error, and returns no
\* value, for every input that is empty, of whitespace only, None or no text (a
\* number, a list), and for no other input.
C21_RaisesExactlyForNoName ==
    /\ (mode = "standardize_name" /\ call.op = "standardize_name") =>
            (call.raised <=>
                \/ call.raw_name = None
                \/ \A i \in DOMAIN The(call.raw_name) :
                        The(call.raw_name)[i] \in Whitespace)
    /\ (mode = "standardize_non_text" /\ call.op = "standardize_name") => call.raised

-----------------------------------------------------------------------------
(* One alert of a cached incident fetched again and again, as the try block  *)
(* of update_alerts does, its records differing in the summary and in the    *)
(* three details alert_name, cluster_id and firing                           *)

\* the records of alert A1: each detail absent or present, alert_name empty or
\* a name, the summary null or a text of two words, firing null, without a
\* namespace line, with one, and with one that no newline ends
AlertRecords ==
    LET full == [AlertDict("A1", Zulu(Now), "I1") EXCEPT !.body.details.firing = None]
        details == full.body.details
        names == {details} \cup {DelKey(details, "alert_name")}
                    \cup {[details EXCEPT !.alert_name = Some(<<>>)]}
        clusters == names \cup {DelKey(d, "cluster_id") : d \in names}
        firings == clusters \cup {DelKey(d, "firing") : d \in clusters}
                    \cup {[d EXCEPT !.firing = Some(f)] : d \in clusters,
                            f \in {<<"o", "k", "\n">>,
                                   NamespaceEquals \o <<"n", "s", "\n">>,
                                   NamespaceEquals \o <<"n", "s">>}}
    IN  {[full EXCEPT !.body.details = d, !.summary = n] :
            d \in firings, n \in {None, full.summary}}

InitAlert ==
    /\ mode = "alert"
    /\ store = InitStore("alerts")
    /\ call = [NoCall EXCEPT !.op = "setUp"]
    /\ ControllerIdle

CallCacheAlert ==
    /\ mode = "alert"
    /\ \E res_dict \in AlertRecords :
            Called("from_pd_api_response", res_dict, CacheAlert(store, res_dict))
    /\ UNCHANGED mode
    /\ ControllerUnchanged

SpecAlert == InitAlert /\ [][CallCacheAlert]_vars

\* C22: when standardizing body.details.alert_name fails with the invalid-name
\* error (the field is there, but empty), the name is the standardized summary;
\* only when that fails as well is the alert a per-item error. (The records
\* whose firing is null are left aside: they fail for another reason.)
C22_NameFallsBackToSummary ==
    [][(/\ mode = "alert"
        /\ ~NoDetail(call'.res_dict, "alert_name")
        /\ StandardizeNameRaises(call'.res_dict.body.details.alert_name)
        /\ (NoDetail(call'.res_dict, "firing")
                \/ call'.res_dict.body.details.firing # None)) =>
         IF StandardizeNameRaises(call'.res_dict.summary)
         THEN call'.raised
         ELSE /\ ~call'.raised
              /\ store'.alerts[1].name
                    = Some(StandardizeName(call'.res_dict.summary))]_vars

\* the first capture of 'namespace = (.*)' in a text, line by line: what
\* follows the first "namespace = " up to the end of its line; unset when the
\* text is unset or has no such line
FirstCapture(firing_details) ==
    IF firing_details = None \/ ~Contains(The(firing_details), NamespaceEquals)
    THEN None
    ELSE LET text == The(firing_details)
             from == Find(text, NamespaceEquals) + Len(NamespaceEquals)
             rest == SubSeq(text, from, Len(text))
         IN  IF Contains(rest, <<"\n">>)
             THEN Some(SubSeq(rest, 1, Find(rest, <<"\n">>) - 1))
             ELSE Some(rest)

\* C23: after any sequence of firing_details assignments on an alert, namespace
\* is the first capture of 'namespace = (.*)' in the latest firing_details and
\* is unset when that has no such line; an assignment without a match, or of an
\* absent or null text, never makes the caching of the alert fail.
C23_NamespaceOfLatestFiring ==
    [][mode = "alert" =>
         /\ ~call'.raised
         /\ store'.alerts[1].namespace = FirstCapture(store'.alerts[1].firing_details)]_vars

\* C25: the extractions of name, cluster ID and firing details are independent:
\* whichever of them fail, the alert is returned and cached, and each of the
\* three whose value is there and well shaped is extracted and set.
C25_ExtractionsIndependent ==
    [][mode = "alert" =>
         LET details == call'.res_dict.body.details
             alert == store'.alerts[1]
         IN  /\ ~call'.raised
             /\ (HasKey(details, "alert_name")
                     /\ ~StandardizeNameRaises(details.alert_name)) =>
                    alert.name = Some(StandardizeName(details.alert_name))
             /\ HasKey(details, "cluster_id") =>
                    alert.cluster_id = Some(Prefix(The(details.cluster_id), 40))
             /\ (HasKey(details, "firing") /\ details.firing # None) =>
                    alert.firing_details = details.firing]_vars

CreatedAts(st) ==
    {The(st.incidents[i].created_at) :
        i \in {j \in DOMAIN st.incidents : st.incidents[j].created_at # None}}

\* C26: oldest_incident_ctime returns the smallest created_at among the cached
\* incidents, and the datetime.max sentinel only when the cache holds no
\* incident at all: an incident without created_at does not make it report
\* the cache as empty.
C26_OldestIsSmallestCreatedAt ==
    [][(mode = "updater" /\ pc = "update_alerts" /\ pc' = "while") =>
         /\ store.incidents = <<>> => oldest_inc_ctime' = DatetimeMax
         /\ store.incidents # <<>> => oldest_inc_ctime' # DatetimeMax
         /\ CreatedAts(store) # {} =>
                /\ oldest_inc_ctime' \in CreatedAts(store)
                /\ \A t \in CreatedAts(store) : oldest_inc_ctime' <= t]_vars

\* C27: in every iteration, alerts are fetched only for the incidents that
\* this iteration's update_incidents call returned, never for another cached
\* incident and never for a skipped record, so that every alert fetch for an
\* incident comes after that incident was staged in the store.
C27_AlertsOfFreshIncidents ==
    [][(mode = "updater" /\ pc = "update_alerts" /\ call'.op = "alert") =>
         /\ acu.incident_list = icu.cached_incidents
         /\ acu.at \in DOMAIN acu.incident_list
         /\ LET inc == acu.incident_list[acu.at]
            IN  /\ inc \in DOMAIN store.incidents
                /\ \E i \in DOMAIN hist.outcomes :
                      ~hist.outcomes[i].raised /\ hist.outcomes[i].id = inc
                /\ call'.res_dict \in UpstreamAlerts(store.incidents[inc].pd_id)]_vars

C27_Witness ==
    /\ mode = "updater"
    /\ pc = "update_alerts"
    /\ call.op = "alert"
    /\ hist.iterations = 2
    /\ Len(store.incidents) = 2
    /\ Len(acu.incident_list) = 1
    /\ \E i \in DOMAIN hist.outcomes : hist.outcomes[i].raised

\* C28: a record (incident or alert) whose processing raised and was skipped
\* leaves the store as it was before that record: no new row for its external
\* ID, and no field of an existing row changed by the failed attempt.
C28_SkippedRecordLeavesStore ==
    [][((IncidentStep \/ AlertStep) /\ call'.raised /\ pc' # "raised") =>
            store' = store]_vars

\* C29: in every iteration after the first the sync window is well formed and
\* never moves forward: since is strictly before until, since is the same in
\* all backfill iterations, and until is never later than the until of the
\* previous iteration (the oldest cached created_at never increases in a run).
C29_WindowNeverMovesForward ==
    [][(/\ mode = "updater" /\ pc = "update_alerts" /\ pc' = "while"
        /\ update_attempts_remaining' > 0) =>
         /\ The(SINCE') < The(UNTIL')
         /\ The(SINCE') = BACKFILL_TARGET - Days(ChatterDays)
         /\ hist.iterations > 1 =>
                /\ SINCE' = SINCE
                /\ icu.since = The(SINCE)
                /\ icu.until = The(UNTIL)
                /\ The(UNTIL') <= icu.until]_vars

\* C30: in every state of the store an Incident's resolved_at is set if and
\* only if its resolved_by is set; a log reconciliation, one that fails part
\* way through a resolve_log_entry included, never leaves a resolution
\* timestamp without a resolving agent or the reverse.
C30_ResolvedAtIffResolvedBy ==
    mode = "reconcile" =>
        \A i \in DOMAIN store.incidents :
            store.incidents[i].resolved_at = None <=>
                store.incidents[i].resolved_by = None

====
